---- MODULE Spec2Model ----
(***************************************************************************)
(* The CHIP-8 virtual machine of src/src/main.rs: struct Chip8, its        *)
(* constructor, get_display_buffer, load_program, fetch, execute, cycle,   *)
(* set_keys and update_timers, and the calls main's loop makes on them.    *)
(*                                                                         *)
(* Rust's integer arithmetic depends on the build profile: with overflow   *)
(* checks (the dev profile) an overflowing +, - or * panics, without them  *)
(* (the release profile) it wraps.  The profile is the variable            *)
(* overflow_checks, fixed by Init and never changed.  An out-of-range      *)
(* array index panics in both profiles.  A panic ends the process: the     *)
(* variable panicked is set, the assignments made before the panicking     *)
(* expression are kept, and no action is enabled afterwards.               *)
(***************************************************************************)
EXTENDS Integers, Sequences, FiniteSets, TLC

(***************************************************************************)
(* Program constants.                                                      *)
(***************************************************************************)
MemSize == 4096
NumRegs == 16
DisplayBytes == 256
NumKeys == 16
StackSize == 16
ProgStart == 512
FontBase == 80
FontLen == 80
ScreenW == 64
ScreenH == 32
U8 == 256
U16 == 65536
VF == 15

\* usize::MAX, the value sp takes when `sp -= 1` wraps at 0.  It is
\* 2^64 - 1 on the 64-bit targets the program builds for, beyond TLC's
\* integers; the model writes it as the all-ones word read as signed.
USIZE_MAX == 0 - 1

(***************************************************************************)
(* Bounds of the model.                                                    *)
(***************************************************************************)
\* set_keys finds the keys k..MaxKey held down, for some k in 0..MaxKey + 1
\* (none when k = MaxKey + 1).
MaxKey == 1

(***************************************************************************)
(* The machine (struct Chip8, a record with the struct's fields: memory    *)
(* [u8; 4096], registers [u8; 16], pc u16, i u16, display [u8; 256], keys  *)
(* [bool; 16], waiting_for_key, key_register, delay_timer, sound_timer,    *)
(* stack [u16; 16], sp usize) and the model's bookkeeping.                 *)
(***************************************************************************)
VARIABLES
    chip8,            \* struct Chip8 (main's `chip8`), and whether the process panicked
    overflow_checks,  \* build profile: TRUE = integer overflow panics
    budget,           \* cycle() calls the frame driver still makes
    hist              \* the last (at most two) cycle() calls: opcode and state before

vars == <<chip8, overflow_checks, budget, hist>>

(***************************************************************************)
(* u8 bit operations.                                                      *)
(***************************************************************************)
Pow2(k) == CASE k = 0 -> 1 [] k = 1 -> 2 [] k = 2 -> 4 [] k = 3 -> 8
             [] k = 4 -> 16 [] k = 5 -> 32 [] k = 6 -> 64 [] k = 7 -> 128
             [] OTHER -> 256

Bit(v, k) == (v \div Pow2(k)) % 2

\* a ^ b on u8
Xor8(a, b) ==
    ((Bit(a, 0) + Bit(b, 0)) % 2)
  + ((Bit(a, 1) + Bit(b, 1)) % 2) * 2
  + ((Bit(a, 2) + Bit(b, 2)) % 2) * 4
  + ((Bit(a, 3) + Bit(b, 3)) % 2) * 8
  + ((Bit(a, 4) + Bit(b, 4)) % 2) * 16
  + ((Bit(a, 5) + Bit(b, 5)) % 2) * 32
  + ((Bit(a, 6) + Bit(b, 6)) % 2) * 64
  + ((Bit(a, 7) + Bit(b, 7)) % 2) * 128

\* a & b on u8
And8(a, b) ==
    (Bit(a, 0) * Bit(b, 0))
  + (Bit(a, 1) * Bit(b, 1)) * 2
  + (Bit(a, 2) * Bit(b, 2)) * 4
  + (Bit(a, 3) * Bit(b, 3)) * 8
  + (Bit(a, 4) * Bit(b, 4)) * 16
  + (Bit(a, 5) * Bit(b, 5)) * 32
  + (Bit(a, 6) * Bit(b, 6)) * 64
  + (Bit(a, 7) * Bit(b, 7)) * 128

\* v >> s and v << s on u8, 0 <= s < 8 (the result truncated to 8 bits)
Shr8(v, s) == v \div Pow2(s)
Shl8(v, s) == (v * Pow2(s)) % U8

(***************************************************************************)
(* Chip8::new: everything zero, pc = 0x200, the font at 0x050..0x09F.      *)
(***************************************************************************)
font == <<
    240, 144, 144, 144, 240,   32,  96,  32,  32, 112,
    240,  16, 240, 128, 240,  240,  16, 240,  16, 240,
    144, 144, 240,  16,  16,  240, 128, 240,  16, 240,
    240, 128, 240, 144, 240,  240,  16,  32,  64,  64,
    240, 144, 240, 144, 240,  240, 144, 240,  16, 240,
    240, 144, 240, 144, 144,  224, 144, 224, 144, 224,
    240, 128, 128, 128, 240,  224, 144, 144, 144, 224,
    240, 128, 240, 128, 240,  240, 128, 240, 128, 128 >>

new ==
    [ memory          |-> [a \in 0..(MemSize - 1) |->
                              IF a >= FontBase /\ a < FontBase + FontLen
                              THEN font[a - FontBase + 1] ELSE 0],
      registers       |-> [r \in 0..(NumRegs - 1) |-> 0],
      pc              |-> ProgStart,
      i               |-> 0,
      display         |-> [d \in 0..(DisplayBytes - 1) |-> 0],
      keys            |-> [k \in 0..(NumKeys - 1) |-> FALSE],
      waiting_for_key |-> FALSE,
      key_register    |-> 0,
      delay_timer     |-> 0,
      sound_timer     |-> 0,
      stack           |-> [s \in 0..(StackSize - 1) |-> 0],
      sp              |-> 0,
      panicked        |-> FALSE ]

\* get_display_buffer (&self): one u32 per pixel, row-major, 0xFFFFFF for a
\* set bit of the display and 0 for a clear one
get_display_buffer(m) ==
    [p \in 0..(ScreenW * ScreenH - 1) |->
        LET y            == p \div ScreenW
            x            == p % ScreenW
            byte_index   == (y * 8) + (x \div 8)
            bit_position == 7 - (x % 8)
        IN  IF Bit(m.display[byte_index], bit_position) # 0
            THEN 16777215 ELSE 0]

\* A panic: the state as the panicking expression found it, and no more steps.
Panic(m) == [m EXCEPT !.panicked = TRUE]

\* load_program: the loop `for (i, &byte) in program.iter().enumerate()`
\* over the bytes lo..hi of the program, in order (the range is halved to
\* keep the evaluation shallow); the first index past the end of memory
\* panics and ends the loop.
RECURSIVE load_from(_, _, _, _)
load_from(m, program, lo, hi) ==
    IF lo > hi \/ m.panicked THEN m
    ELSE IF lo = hi
    THEN IF ProgStart + (lo - 1) >= MemSize THEN Panic(m)
         ELSE [m EXCEPT !.memory[ProgStart + (lo - 1)] = program[lo]]
    ELSE LET mid == (lo + hi) \div 2
         IN  load_from(load_from(m, program, lo, mid), program, mid + 1, hi)

load_program(m, program) == load_from(m, program, 1, Len(program))

(***************************************************************************)
(* fetch: the big-endian word at pc, pc + 1; Fetchable is where neither    *)
(* index nor pc + 1 faults.                                                *)
(***************************************************************************)
Fetchable(m) == m.pc + 1 < MemSize

fetch(m) == m.memory[m.pc] * 256 + m.memory[m.pc + 1]

\* The opcode's fields (execute, lines 157-161).
OpX(opcode) == (opcode \div 256) % 16
OpY(opcode) == (opcode \div 16) % 16
OpN(opcode) == opcode % 16
OpNN(opcode) == opcode % 256
OpNNN(opcode) == opcode % 4096
OpTop(opcode) == opcode \div 4096

\* `self.pc += k` and `self.pc -= k` on u16
pc_add(m, k) ==
    IF m.pc + k >= U16
    THEN IF overflow_checks THEN Panic(m)
         ELSE [m EXCEPT !.pc = (m.pc + k) % U16]
    ELSE [m EXCEPT !.pc = m.pc + k]

pc_sub(m, k) ==
    IF m.pc < k
    THEN IF overflow_checks THEN Panic(m)
         ELSE [m EXCEPT !.pc = (m.pc - k) % U16]
    ELSE [m EXCEPT !.pc = m.pc - k]

\* `self.pc = nnn - 2` on u16
pc_set_biased(m, nnn) ==
    IF nnn < 2
    THEN IF overflow_checks THEN Panic(m)
         ELSE [m EXCEPT !.pc = (nnn - 2) % U16]
    ELSE [m EXCEPT !.pc = nnn - 2]

(***************************************************************************)
(* execute: one operator per arm of the match.                             *)
(***************************************************************************)
\* mutant of Exec00E0: only the first display row is cleared
Exec00E0_FirstRow(m) ==
    [m EXCEPT !.display = [d \in 0..(DisplayBytes - 1) |->
                              IF d < 8 THEN 0 ELSE m.display[d]]]

\* 00E0
Exec00E0(m) == [m EXCEPT !.display = [d \in 0..(DisplayBytes - 1) |-> 0]]

\* mutant of Exec00EE: the address popped is taken one byte further
Exec00EE_NextByte(m) ==
    IF m.sp = 0
    THEN IF overflow_checks THEN Panic(m)
         ELSE Panic([m EXCEPT !.sp = USIZE_MAX])
    ELSE IF m.sp - 1 >= StackSize THEN Panic([m EXCEPT !.sp = m.sp - 1])
    ELSE [m EXCEPT !.sp = m.sp - 1, !.pc = m.stack[m.sp - 1] + 1]

\* 00EE: `self.sp -= 1; self.pc = self.stack[self.sp]`
Exec00EE(m) ==
    IF m.sp = 0
    THEN IF overflow_checks THEN Panic(m)
         ELSE Panic([m EXCEPT !.sp = USIZE_MAX])
    ELSE IF m.sp - 1 >= StackSize THEN Panic([m EXCEPT !.sp = m.sp - 1])
    ELSE [m EXCEPT !.sp = m.sp - 1, !.pc = m.stack[m.sp - 1]]

\* mutant of Exec1NNN: the jump stores a return address, as the call does
Exec1NNN_AsCall(m, nnn) ==
    IF m.sp >= StackSize THEN Panic(m)
    ELSE pc_set_biased([m EXCEPT !.stack[m.sp] = m.pc, !.sp = m.sp + 1], nnn)

\* 1NNN
Exec1NNN(m, nnn) == pc_set_biased(m, nnn)

\* mutant of Exec2NNN: the address pushed is that of the next instruction
Exec2NNN_PushNext(m, nnn) ==
    IF m.sp >= StackSize THEN Panic(m)
    ELSE pc_set_biased([m EXCEPT !.stack[m.sp] = m.pc + 2, !.sp = m.sp + 1], nnn)

\* mutant of Exec2NNN: the stack is taken to hold one entry more
Exec2NNN_OneMore(m, nnn) ==
    IF m.sp > StackSize THEN Panic(m)
    ELSE pc_set_biased([m EXCEPT !.stack[m.sp] = m.pc, !.sp = m.sp + 1], nnn)

\* 2NNN: `self.stack[self.sp] = self.pc; self.sp += 1; self.pc = nnn - 2`
Exec2NNN(m, nnn) ==
    IF m.sp >= StackSize THEN Panic(m)
    ELSE pc_set_biased([m EXCEPT !.stack[m.sp] = m.pc, !.sp = m.sp + 1], nnn)

\* 3XNN, 4XNN, 5XY0, 9XY0
Exec3XNN(m, x, nn) == IF m.registers[x] = nn THEN pc_add(m, 2) ELSE m

Exec4XNN(m, x, nn) == IF m.registers[x] # nn THEN pc_add(m, 2) ELSE m

\* mutant of Exec5XY0: the test is that of 9XY0
Exec5XY0_SkipIfDiffers(m, x, y) ==
    IF m.registers[x] # m.registers[y] THEN pc_add(m, 2) ELSE m

Exec5XY0(m, x, y) ==
    IF m.registers[x] = m.registers[y] THEN pc_add(m, 2) ELSE m

Exec9XY0(m, x, y) ==
    IF m.registers[x] # m.registers[y] THEN pc_add(m, 2) ELSE m

\* 6XNN, 7XNN (wrapping_add)
Exec6XNN(m, x, nn) == [m EXCEPT !.registers[x] = nn]

Exec7XNN(m, x, nn) == [m EXCEPT !.registers[x] = (m.registers[x] + nn) % U8]

\* 8XY0, 8XY2
Exec8XY0(m, x, y) == [m EXCEPT !.registers[x] = m.registers[y]]

Exec8XY2(m, x, y) ==
    [m EXCEPT !.registers[x] = And8(m.registers[x], m.registers[y])]

\* mutant of Exec8XY4: the carry is taken of the wrapped sum
Exec8XY4_CarryOfWrapped(m, x, y) ==
    LET sum == (m.registers[x] + m.registers[y]) % U8
        r1  == [m.registers EXCEPT ![x] = sum]
    IN  [m EXCEPT !.registers = [r1 EXCEPT ![VF] = IF sum >= U8 THEN 1 ELSE 0]]

\* 8XY4: overflowing_add, the result to VX and then the carry to VF
Exec8XY4(m, x, y) ==
    LET sum == m.registers[x] + m.registers[y]
        r1  == [m.registers EXCEPT ![x] = sum % U8]
    IN  [m EXCEPT !.registers = [r1 EXCEPT ![VF] = IF sum >= U8 THEN 1 ELSE 0]]

\* mutant of Exec8XY5: VF is the borrow, not its inverse
Exec8XY5_BorrowNotInverted(m, x, y) ==
    LET a  == m.registers[x]
        b  == m.registers[y]
        r1 == [m.registers EXCEPT ![x] = (a - b) % U8]
    IN  [m EXCEPT !.registers = [r1 EXCEPT ![VF] = IF a < b THEN 1 ELSE 0]]

\* 8XY5: overflowing_sub, the result to VX and then the inverted borrow to VF
Exec8XY5(m, x, y) ==
    LET a  == m.registers[x]
        b  == m.registers[y]
        r1 == [m.registers EXCEPT ![x] = (a - b) % U8]
    IN  [m EXCEPT !.registers = [r1 EXCEPT ![VF] = IF a < b THEN 0 ELSE 1]]

\* ANNN
ExecANNN(m, nnn) == [m EXCEPT !.i = nnn]

\* mutant of draw_byte: the sprite bits replace the display byte
draw_byte_Overwrite(m, index, bits) ==
    LET old == m.display[index]
    IN  [m EXCEPT !.display[index] = bits,
                  !.registers[VF] = IF old # 0 /\ bits < old THEN 1 ELSE @]

\* DXYN, one XOR of `bits` into display[index] with the collision test
\* `old != 0 && self.display[..] < old`
draw_byte(m, index, bits) ==
    LET old == m.display[index]
        xored == Xor8(old, bits)
    IN  [m EXCEPT !.display[index] = xored,
                  !.registers[VF] = IF old # 0 /\ xored < old THEN 1 ELSE @]

\* mutant of draw_rows: the second byte is drawn whenever the shift is not
\* 0, the right edge of the row not considered
RECURSIVE draw_rows_NoEdge(_, _, _, _, _)
draw_rows_NoEdge(m, x, y, row, height) ==
    IF row >= height THEN m
    ELSE IF m.i + row >= U16 /\ overflow_checks THEN Panic(m)
    ELSE IF (m.i + row) % U16 >= MemSize THEN Panic(m)
    ELSE
      LET shift       == x % 8
          sprite_byte == m.memory[(m.i + row) % U16]
          display_row == (y + row) % ScreenH
          index       == (display_row * 8) + (x \div 8)
          m1          == draw_byte(m, index, Shr8(sprite_byte, shift))
      IN  IF shift = 0 THEN draw_rows_NoEdge(m1, x, y, row + 1, height)
          ELSE IF index + 1 >= DisplayBytes THEN Panic(m1)
          ELSE draw_rows_NoEdge(
                   draw_byte(m1, index + 1, Shl8(sprite_byte, 8 - shift)),
                   x, y, row + 1, height)

\* DXYN, the loop `for row in 0..height` from `row` on
RECURSIVE draw_rows(_, _, _, _, _)
draw_rows(m, x, y, row, height) ==
    IF row >= height THEN m
    ELSE IF m.i + row >= U16 /\ overflow_checks THEN Panic(m)
    ELSE IF (m.i + row) % U16 >= MemSize THEN Panic(m)
    ELSE
      LET shift       == x % 8
          sprite_byte == m.memory[(m.i + row) % U16]
          display_row == (y + row) % ScreenH
          index       == (display_row * 8) + (x \div 8)
          m1          == draw_byte(m, index, Shr8(sprite_byte, shift))
          m2          == IF shift # 0 /\ (x + 8) < ScreenW
                         THEN draw_byte(m1, index + 1,
                                        Shl8(sprite_byte, 8 - shift))
                         ELSE m1
      IN  draw_rows(m2, x, y, row + 1, height)

ExecDXYN(m, x, y, n) ==
    draw_rows([m EXCEPT !.registers[VF] = 0],
              m.registers[x] % ScreenW, m.registers[y] % ScreenH, 0, n)

\* EX9E, EXA1: `self.keys[key]` with key = VX
ExecEX9E(m, x) ==
    IF m.registers[x] >= NumKeys THEN Panic(m)
    ELSE IF m.keys[m.registers[x]] THEN pc_add(m, 2) ELSE m

ExecEXA1(m, x) ==
    IF m.registers[x] >= NumKeys THEN Panic(m)
    ELSE IF ~m.keys[m.registers[x]] THEN pc_add(m, 2) ELSE m

\* FX07, FX0A, FX15, FX18
ExecFX07(m, x) == [m EXCEPT !.registers[x] = m.delay_timer]

ExecFX0A(m, x) ==
    pc_sub([m EXCEPT !.waiting_for_key = TRUE, !.key_register = x], 2)

ExecFX15(m, x) == [m EXCEPT !.delay_timer = m.registers[x]]

ExecFX18(m, x) == [m EXCEPT !.sound_timer = m.registers[x]]

\* FX29: `(self.registers[x] * 5) as u16 + 0x050`, the product in u8
ExecFX29(m, x) ==
    IF m.registers[x] * 5 >= U8 /\ overflow_checks THEN Panic(m)
    ELSE [m EXCEPT !.i = ((m.registers[x] * 5) % U8) + FontBase]

\* mutant of ExecFX33: the three addresses are reduced modulo the memory size
ExecFX33_Wrap(m, x) ==
    LET v == m.registers[x]
    IN  [m EXCEPT !.memory =
            [a \in 0..(MemSize - 1) |->
                IF a = (m.i + 2) % MemSize THEN (v % 100) % 10
                ELSE IF a = (m.i + 1) % MemSize THEN (v % 100) \div 10
                ELSE IF a = m.i % MemSize THEN v \div 100
                ELSE m.memory[a]]]

\* FX33: three stores, each index checked when it is made
ExecFX33(m, x) ==
    LET v        == m.registers[x]
        hundreds == v \div 100
        tens     == (v % 100) \div 10
        ones     == (v % 100) % 10
        m1       == [m EXCEPT !.memory[m.i] = hundreds]
        m2       == [m1 EXCEPT !.memory[m.i + 1] = tens]
    IN  IF m.i >= MemSize THEN Panic(m)
        ELSE IF m.i + 1 >= MemSize THEN Panic(m1)
        ELSE IF m.i + 2 >= MemSize THEN Panic(m2)
        ELSE [m2 EXCEPT !.memory[m.i + 2] = ones]

\* FX65: the arm is empty
ExecFX65(m, x) == m

\* the `match opcode & 0xF000` of execute; an unmatched opcode only prints
execute(m, opcode) ==
    LET x   == OpX(opcode)
        y   == OpY(opcode)
        n   == OpN(opcode)
        nn  == OpNN(opcode)
        nnn == OpNNN(opcode)
        top == OpTop(opcode)
    IN  CASE top = 0 ->
               (CASE opcode = 224 -> Exec00E0(m)
                  [] opcode = 238 -> Exec00EE(m)
                  [] OTHER -> m)
          [] top = 1 -> Exec1NNN(m, nnn)
          [] top = 2 -> Exec2NNN(m, nnn)
          [] top = 3 -> Exec3XNN(m, x, nn)
          [] top = 4 -> Exec4XNN(m, x, nn)
          [] top = 5 -> Exec5XY0(m, x, y)
          [] top = 6 -> Exec6XNN(m, x, nn)
          [] top = 7 -> Exec7XNN(m, x, nn)
          [] top = 8 ->
               (CASE n = 0 -> Exec8XY0(m, x, y)
                  [] n = 2 -> Exec8XY2(m, x, y)
                  [] n = 4 -> Exec8XY4(m, x, y)
                  [] n = 5 -> Exec8XY5(m, x, y)
                  [] OTHER -> m)
          [] top = 9 -> Exec9XY0(m, x, y)
          [] top = 10 -> ExecANNN(m, nnn)
          [] top = 13 -> ExecDXYN(m, x, y, n)
          [] top = 14 ->
               (CASE nn = 158 -> ExecEX9E(m, x)
                  [] nn = 161 -> ExecEXA1(m, x)
                  [] OTHER -> m)
          [] top = 15 ->
               (CASE nn = 7 -> ExecFX07(m, x)
                  [] nn = 10 -> ExecFX0A(m, x)
                  [] nn = 21 -> ExecFX15(m, x)
                  [] nn = 24 -> ExecFX18(m, x)
                  [] nn = 41 -> ExecFX29(m, x)
                  [] nn = 51 -> ExecFX33(m, x)
                  [] nn = 101 -> ExecFX65(m, x)
                  [] OTHER -> m)
          [] OTHER -> m

(***************************************************************************)
(* cycle, update_timers, set_keys.                                         *)
(***************************************************************************)
\* mutant of first_pressed: the scan keeps the last pressed key it meets
first_pressed_Last(m) ==
    CHOOSE k \in 0..(NumKeys - 1) :
        m.keys[k] /\ \A j \in (k + 1)..(NumKeys - 1) : ~m.keys[j]

\* the key the scan `for (i, &pressed) in self.keys.iter().enumerate()`
\* stops at: the lowest pressed index
first_pressed(m) ==
    CHOOSE k \in 0..(NumKeys - 1) :
        m.keys[k] /\ \A j \in 0..(k - 1) : ~m.keys[j]

\* cycle, the `if self.waiting_for_key` branch
cycle_waiting(m) ==
    IF \E k \in 0..(NumKeys - 1) : m.keys[k]
    THEN pc_add([m EXCEPT !.registers[m.key_register] = first_pressed(m),
                          !.waiting_for_key = FALSE], 2)
    ELSE m

\* cycle, fetch / execute / `self.pc += 2`
cycle_execute(m) ==
    IF ~Fetchable(m) THEN Panic(m)
    ELSE LET e == execute(m, fetch(m))
         IN  IF e.panicked THEN e ELSE pc_add(e, 2)

cycle(m) == IF m.waiting_for_key THEN cycle_waiting(m) ELSE cycle_execute(m)

\* mutant of update_timers: the decrements are made without the tests
update_timers_Unguarded(m) ==
    [m EXCEPT !.delay_timer = (@ - 1) % U8,
              !.sound_timer = (@ - 1) % U8]

update_timers(m) ==
    [m EXCEPT !.delay_timer = IF @ > 0 THEN @ - 1 ELSE @,
              !.sound_timer = IF @ > 0 THEN @ - 1 ELSE @]

\* set_keys: every key flag is overwritten from the window; `down` is the
\* set of CHIP-8 keys whose host key is held
set_keys(m, down) == [m EXCEPT !.keys = [k \in 0..(NumKeys - 1) |-> k \in down]]

(***************************************************************************)
(* The actions: the calls main makes on the machine.                       *)
(***************************************************************************)
\* What hist records of a cycle() call: the opcode it fetched (WaitCycle in
\* key-wait mode, FetchFault when the fetch panicked) and the state it began in
\* (memory and the key flags excepted).
WaitCycle == 0 - 1
FetchFault == 0 - 2

Fetched(m) ==
    IF m.waiting_for_key THEN WaitCycle
    ELSE IF ~Fetchable(m) THEN FetchFault
    ELSE fetch(m)

Before(m) ==
    [ opcode          |-> Fetched(m),
      registers       |-> m.registers,
      pc              |-> m.pc,
      i               |-> m.i,
      display         |-> m.display,
      waiting_for_key |-> m.waiting_for_key,
      key_register    |-> m.key_register,
      delay_timer     |-> m.delay_timer,
      sound_timer     |-> m.sound_timer,
      stack           |-> m.stack,
      sp              |-> m.sp ]

\* chip8.cycle()
Cycle ==
    /\ ~chip8.panicked
    /\ budget > 0
    /\ chip8' = cycle(chip8)
    /\ budget' = budget - 1
    /\ hist' = <<Before(chip8)>> \o (IF hist = <<>> THEN <<>> ELSE <<hist[1]>>)
    /\ UNCHANGED overflow_checks

\* the host key states set_keys may find
KeysDown == {k..MaxKey : k \in 0..(MaxKey + 1)}

\* chip8.set_keys(&window)
SetKeys ==
    /\ ~chip8.panicked
    /\ \E down \in KeysDown : chip8' = set_keys(chip8, down)
    /\ UNCHANGED <<overflow_checks, budget, hist>>

\* chip8.update_timers()
UpdateTimers ==
    /\ ~chip8.panicked
    /\ chip8' = update_timers(chip8)
    /\ UNCHANGED <<overflow_checks, budget, hist>>

\* main's `let buffer = chip8.get_display_buffer()`: the buffer goes to the
\* window; the machine, borrowed immutably, is as it was
Render ==
    /\ ~chip8.panicked
    /\ LET buffer == get_display_buffer(chip8)
       IN  UNCHANGED vars

Next == Cycle \/ SetKeys \/ UpdateTimers \/ Render

(***************************************************************************)
(* ROM images.  A ROM is a sequence of bytes; Assemble turns a sequence of *)
(* 16-bit words into it, high byte first.                                  *)
(***************************************************************************)
RECURSIVE Assemble(_)
Assemble(words) ==
    IF words = <<>> THEN <<>>
    ELSE <<Head(words) \div 256, Head(words) % 256>> \o Assemble(Tail(words))

Op(top, x, y, n) == top * 4096 + x * 256 + y * 16 + n
OpXNN(top, x, nn) == top * 4096 + x * 256 + nn
OpAddr(top, nnn) == top * 4096 + nnn

\* the state main reaches before its loop: new, then load_program(rom), in
\* either build profile, with `cycles` calls of cycle() to come
Loaded(roms, cycles) ==
    \E rom \in roms, checks \in BOOLEAN :
        /\ chip8 = load_program(new, rom)
        /\ overflow_checks = checks
        /\ budget = cycles
        /\ hist = <<>>

\* a jump to its own address: the idiom a ROM ends with
Halt(addr) == OpAddr(1, addr)

(***************************************************************************)
(* Arithmetic programs: VX := a; VY := b; 8XY4 or 8XY5; halt.              *)
(***************************************************************************)
\* operand values: the multiples of ByteStride, their predecessors, and 255
ByteStride == 64
ByteSample ==
    {v \in 0..(U8 - 1) :
        v % ByteStride = 0 \/ v % ByteStride = ByteStride - 1 \/ v = U8 - 1}

\* register pairs (X, Y): distinct, equal, and VF as X or as Y
AluRegPairs == {<<0, 1>>, <<3, 3>>, <<15, 2>>, <<4, 15>>, <<15, 15>>}

AluCycles == 4

AluRoms ==
    {Assemble(<<OpXNN(6, p[1], a), OpXNN(6, p[2], b), Op(8, p[1], p[2], f),
                Halt(ProgStart + 6)>>) :
        p \in AluRegPairs, a \in ByteSample, b \in ByteSample, f \in {4, 5}}

InitAlu == Loaded(AluRoms, AluCycles)

SpecAlu == InitAlu /\ [][Next]_vars


(***************************************************************************)
(* Subroutine programs.                                                    *)
(*   CallChain(d): d nested calls, the k-th at 0x200 + 4k calling          *)
(*     0x200 + 4(k+1), then d returns; the word after each call is 00EE,   *)
(*     after the first call a halt.                                        *)
(*   CallAt(nnn): a call of nnn at 0x200, a halt at 0x202, zero bytes, and *)
(*     00EE at nnn.                                                        *)
(*   <<2200>>: a subroutine calling itself.  <<00EE>>: a return with no    *)
(*     call before it.                                                     *)
(***************************************************************************)
MaxCallDepth == 16
MaxCallOffset == 3
StackCycles == 34

Ret == 238

CallChain(d) ==
    Assemble([k \in 1..(2 * d + 1) |->
                 IF k = 2 * d + 1 THEN Ret
                 ELSE IF k % 2 = 1 THEN OpAddr(2, ProgStart + 2 * (k + 1))
                 ELSE IF k = 2 THEN Halt(ProgStart + 2)
                 ELSE Ret])

CallAt(nnn) ==
    Assemble(<<OpAddr(2, nnn), Halt(ProgStart + 2)>>)
      \o [k \in 1..(nnn - (ProgStart + 4)) |-> 0]
      \o <<0, Ret>>

StackRoms ==
    {CallChain(d) : d \in 1..MaxCallDepth}
      \cup {CallAt(ProgStart + 4 + k) : k \in 0..MaxCallOffset}
      \cup {CallAt(MemSize - 2)}
      \cup {Assemble(<<OpAddr(2, ProgStart)>>), Assemble(<<Ret>>)}

InitStack == Loaded(StackRoms, StackCycles)

SpecStack == InitStack /\ [][Next]_vars

(***************************************************************************)
(* Control-flow programs.                                                  *)
(*   SkipRoms: VX := a; VY := b; a skip opcode; a halt at each of the two  *)
(*     addresses the skip can leave PC at.                                 *)
(*   JumpRoms: 1NNN or 2NNN at 0x200, then whatever memory holds at NNN.   *)
(***************************************************************************)
MaxSkipVal == 1
AddrStride == 512
CtlCycles == 4

SkipRegPairs == {<<0, 1>>, <<15, 3>>}

SkipOps(x, y, a) ==
    {OpXNN(3, x, a), OpXNN(3, x, (a + 1) % U8),
     OpXNN(4, x, a), OpXNN(4, x, (a + 1) % U8),
     Op(5, x, y, 0), Op(9, x, y, 0),
     OpXNN(14, x, 158), OpXNN(14, x, 161)}

SkipRoms ==
    UNION {
      {Assemble(<<OpXNN(6, p[1], a), OpXNN(6, p[2], b), skip,
                  Halt(ProgStart + 6), Halt(ProgStart + 8)>>) :
          skip \in SkipOps(p[1], p[2], a)} :
        p \in SkipRegPairs, a \in 0..MaxSkipVal, b \in 0..MaxSkipVal}

JumpTargets ==
    {0, 1, 2, 3, ProgStart, ProgStart + 1, MemSize - 2, MemSize - 1}
      \cup {t \in 0..(MemSize - 1) : t % AddrStride = 0}

JumpRoms ==
    {Assemble(<<OpAddr(top, nnn)>>) : top \in {1, 2}, nnn \in JumpTargets}

InitCtl == Loaded(SkipRoms \cup JumpRoms, CtlCycles)

SpecCtl == InitCtl /\ [][Next]_vars

(***************************************************************************)
(* Key-wait programs: VX := 170; FX0A; FX0A; halt, and the same without    *)
(* the first instruction.                                                  *)
(***************************************************************************)
KeyCycles == 5

KeyRegs == {0, 3, 15}

KeyRoms ==
    {Assemble(<<OpXNN(6, x, 170), OpXNN(15, x, 10), OpXNN(15, x, 10),
                Halt(ProgStart + 6)>>) : x \in KeyRegs}
      \cup {Assemble(<<OpXNN(15, x, 10), OpXNN(15, x, 10),
                       Halt(ProgStart + 4)>>) : x \in KeyRegs}

InitKey == Loaded(KeyRoms, KeyCycles)

SpecKey == InitKey /\ [][Next]_vars

(***************************************************************************)
(* Drawing programs: V0 := vx; V1 := vy; I := SpriteData; D01n, the         *)
(* background; I := a sprite; D01n twice; halt; then the sprite bytes.     *)
(***************************************************************************)
MaxSpriteOff == 2
MaxSpriteRows == 2
DrawCycles == 7

SpriteData == <<128, 192, 255, 129, 60, 1>>

SpriteBase == ProgStart + 16

\* sprite addresses: into SpriteData, and the font
SpriteAddrs == {SpriteBase + k : k \in 0..MaxSpriteOff} \cup {FontBase}

\* sprite heights: 0..MaxSpriteRows, and the tallest, 15
SpriteRows == (0..MaxSpriteRows) \cup {15}

\* positions: unaligned, unaligned in the last byte column, and past the
\* screen (reduced mod 64 to an aligned column, mod 32)
DrawXs == {5, 59, 64}
DrawYs == {31, 32 + 25}

DrawRoms ==
    {Assemble(<<OpXNN(6, 0, vx), OpXNN(6, 1, vy),
                OpAddr(10, SpriteBase), Op(13, 0, 1, bgrows),
                OpAddr(10, sprite), Op(13, 0, 1, n), Op(13, 0, 1, n),
                Halt(ProgStart + 14)>>) \o SpriteData :
        vx \in DrawXs, vy \in DrawYs, bgrows \in {0, MaxSpriteRows},
        sprite \in SpriteAddrs, n \in SpriteRows}

InitDraw == Loaded(DrawRoms, DrawCycles)

SpecDraw == InitDraw /\ [][Next]_vars

(***************************************************************************)
(* Index-register and memory programs.                                     *)
(*   BcdRoms: I := addr; V2 := v; F233; halt.                              *)
(*   SpriteReadRoms: I := addr; D00n; halt.                                *)
(*   RunOffRoms: a jump towards the end of memory, which holds zeros.      *)
(*   FontRoms: VX := v; FX29; halt.                                        *)
(*   LoadRoms: I := the bytes after the program; FX65; halt; LoadData.     *)
(***************************************************************************)
MaxEndOff == 3
MemCycles == 5

\* addresses: the last MaxEndOff + 1 cells of memory, and one in the middle
EndAddrs == {MemSize - 1 - k : k \in 0..MaxEndOff} \cup {ProgStart + 256}

BcdVals == {0, 9, 157, 255}

BcdRoms ==
    {Assemble(<<OpAddr(10, addr), OpXNN(6, 2, v), OpXNN(15, 2, 51),
                Halt(ProgStart + 6)>>) : addr \in EndAddrs, v \in BcdVals}

SpriteReadRoms ==
    {Assemble(<<OpAddr(10, addr), Op(13, 0, 0, n), Halt(ProgStart + 4)>>) :
        addr \in EndAddrs, n \in SpriteRows}

RunOffRoms ==
    {Assemble(<<OpAddr(1, MemSize - 1 - k)>>) : k \in 0..MaxEndOff}

\* glyph numbers: the hex digits' ends, and values whose product by 5
\* does and does not fit in 8 bits
FontVals == {0, 1, 15, 16, 51, 52, 102, 255}

FontRegs == {0, 7, 15}

FontRoms ==
    {Assemble(<<OpXNN(6, x, v), OpXNN(15, x, 41), Halt(ProgStart + 4)>>) :
        x \in FontRegs, v \in FontVals}

LoadData == <<17, 34, 51, 68, 85, 102, 119, 136,
              153, 170, 187, 204, 221, 238, 255, 16>>

LoadRegs == {0, 1, 15}

LoadRoms ==
    {Assemble(<<OpAddr(10, ProgStart + 6), OpXNN(15, x, 101),
                Halt(ProgStart + 4)>>) \o LoadData : x \in LoadRegs}

MemRoms == BcdRoms \cup SpriteReadRoms \cup RunOffRoms \cup FontRoms \cup LoadRoms

InitMem == Loaded(MemRoms, MemCycles)

SpecMem == InitMem /\ [][Next]_vars

(***************************************************************************)
(* Decoding programs.                                                      *)
(*   UnlistedRoms: VX := a; VY := b; an opcode execute has no arm of its   *)
(*     own for; a halt at each of the two addresses that follow.           *)
(*   KeyIndexRoms: VX := v; EX9E or EXA1; the two halts.                   *)
(***************************************************************************)
MaxOpVal == 1
DecodeCycles == 4

\* opcodes of every family whose second-level match has a `_` arm or none,
\* and of the families B and C, which execute does not match
UnlistedOps(x, y) ==
    {0, 225, 239, 291,
     Op(5, x, y, 1), Op(5, x, y, 15),
     Op(8, x, y, 1), Op(8, x, y, 3), Op(8, x, y, 6), Op(8, x, y, 7),
     Op(8, x, y, 14), Op(8, x, y, 15),
     Op(9, x, y, 1), Op(9, x, y, 15),
     OpAddr(11, ProgStart + 8), OpXNN(12, x, 255),
     OpXNN(14, x, 0), OpXNN(14, x, 159), OpXNN(14, x, 160),
     OpXNN(15, x, 0), OpXNN(15, x, 30), OpXNN(15, x, 85), OpXNN(15, x, 102),
     OpXNN(15, x, 255)}

UnlistedRoms ==
    UNION {
      {Assemble(<<OpXNN(6, p[1], a), OpXNN(6, p[2], b), op,
                  Halt(ProgStart + 6), Halt(ProgStart + 8)>>) :
          op \in UnlistedOps(p[1], p[2])} :
        p \in SkipRegPairs, a \in 0..MaxOpVal, b \in 0..MaxOpVal}

\* key numbers: the first keys, the last, and values past the keypad
KeyIndexVals == {0, 1, 15, 16, 255}

KeyIndexRoms ==
    {Assemble(<<OpXNN(6, x, v), OpXNN(14, x, nn),
                Halt(ProgStart + 4), Halt(ProgStart + 6)>>) :
        x \in KeyRegs, v \in KeyIndexVals, nn \in {158, 161}}

InitDecode == Loaded(UnlistedRoms \cup KeyIndexRoms, DecodeCycles)

SpecDecode == InitDecode /\ [][Next]_vars

(***************************************************************************)
(* Timer programs.                                                         *)
(*   BothTimerRoms: V4 := v; F415; V5 := w; F518; F607; halt.              *)
(*   OneTimerRoms: VX := 255; FX15 or FX18, and no cycle() after it.       *)
(***************************************************************************)
MaxTimer == 2
TimerCycles == 6

BothTimerRoms ==
    {Assemble(<<OpXNN(6, 4, v), OpXNN(15, 4, 21), OpXNN(6, 5, w),
                OpXNN(15, 5, 24), OpXNN(15, 6, 7), Halt(ProgStart + 10)>>) :
        v \in 0..MaxTimer, w \in 0..MaxTimer}

OneTimerRoms ==
    {Assemble(<<OpXNN(6, x, U8 - 1), OpXNN(15, x, nn)>>) :
        x \in {0, 15}, nn \in {21, 24}}

\* as Loaded, with one cycle() call to come for each instruction of the ROM
LoadedToEnd(roms) ==
    \E rom \in roms, checks \in BOOLEAN :
        /\ chip8 = load_program(new, rom)
        /\ overflow_checks = checks
        /\ budget = Len(rom) \div 2
        /\ hist = <<>>

InitTimer ==
    \/ Loaded(BothTimerRoms, TimerCycles)
    \/ LoadedToEnd(OneTimerRoms)

SpecTimer == InitTimer /\ [][Next]_vars

(***************************************************************************)
(* The addition loop: VA := 0; VB := 1; VC := 10; VD := 11; at 0x208       *)
(* VA += VB; VB += 1; skip if VB = VD; jump to 0x208; VF := 0xFF.  The     *)
(* frame driver calls cycle() again and again (main's loop, eleven calls a *)
(* frame while the window is open): cycle() is taken under weak fairness.  *)
(***************************************************************************)
LoopCycles == 46

LoopRom ==
    Assemble(<<OpXNN(6, 10, 0), OpXNN(6, 11, 1), OpXNN(6, 12, 10),
               OpXNN(6, 13, 11), Op(8, 10, 11, 4), OpXNN(7, 11, 1),
               Op(5, 11, 13, 0), OpAddr(1, ProgStart + 8), OpXNN(6, 15, 255)>>)

InitLoop == Loaded({LoopRom}, LoopCycles)

SpecLoop == InitLoop /\ [][Next]_vars /\ WF_vars(Cycle)

(***************************************************************************)
(* Display programs: I := the font; V0 := 5; D015, the glyph 0 at (5, 0);  *)
(* one opcode of FrameOps; 00E0; D015; halt.  And the same start followed  *)
(* by a call of a subroutine that returns at once.                         *)
(***************************************************************************)
FrameCycles == 7

\* an opcode for each arm of execute but 00E0, 00EE and DXYN, and two that
\* reach a `_` arm; `next` is the address after the opcode
FrameOps(next) ==
    {OpXNN(6, 2, 7), OpXNN(7, 0, 1), Op(8, 2, 0, 0), Op(8, 2, 0, 2),
     Op(8, 2, 0, 4), Op(8, 2, 0, 5), OpAddr(10, ProgStart + 256),
     OpXNN(15, 2, 7), OpXNN(15, 2, 10), OpXNN(15, 0, 21), OpXNN(15, 0, 24),
     OpXNN(15, 0, 41), OpXNN(15, 0, 51), OpXNN(15, 0, 101),
     OpXNN(3, 0, 5), OpXNN(4, 0, 5), Op(5, 0, 1, 0), Op(9, 0, 1, 0),
     OpXNN(14, 0, 158), OpXNN(14, 0, 161),
     OpAddr(1, next), OpAddr(2, next), 0, OpAddr(11, 0)}

FrameRoms ==
    {Assemble(<<OpAddr(10, FontBase), OpXNN(6, 0, 5), Op(13, 0, 1, 5), op,
                224, Op(13, 0, 1, 5), Halt(ProgStart + 12)>>) :
        op \in FrameOps(ProgStart + 8)}
      \cup {Assemble(<<OpAddr(10, FontBase), OpXNN(6, 0, 5), Op(13, 0, 1, 5),
                       OpAddr(2, ProgStart + 10), Halt(ProgStart + 8), Ret>>)}

InitFrame == Loaded(FrameRoms, FrameCycles)

SpecFrame == InitFrame /\ [][Next]_vars

(***************************************************************************)
(* Every program above that moves PC otherwise than by the cycle's += 2:   *)
(* the subroutine, control-flow and key-wait programs together.            *)
(***************************************************************************)
InitPc == InitStack \/ InitCtl \/ InitKey

SpecPc == InitPc /\ [][Next]_vars

(***************************************************************************)
(* Reading hist.  Ran(k) says the k-th most recent cycle() call exists;    *)
(* Executed(k, top) that it fetched an opcode of family `top`.             *)
(***************************************************************************)
Ran(k) == Len(hist) >= k

Executed(k, top) ==
    /\ Ran(k)
    /\ hist[k].opcode >= 0
    /\ OpTop(hist[k].opcode) = top

\* a step of cycle() that is not in key-wait mode and has fetched its opcode
CycleFetches ==
    /\ budget' = budget - 1
    /\ Fetched(chip8) >= 0

Ran8XY(k, n) == Executed(k, 8) /\ OpN(hist[k].opcode) = n

(***************************************************************************)
(* C1: 8XY4.                                                               *)
(***************************************************************************)
\* C1 as stated: after a cycle() that executed 8XY4 with VX = a and VY = b
\* before it, register X holds (a + b) mod 256 and VF holds 1 if
\* a + b >= 256 and 0 otherwise, for every X and Y in 0..15.
C1_AddEveryX ==
    Ran8XY(1, 4) =>
        LET x == OpX(hist[1].opcode)
            a == hist[1].registers[x]
            b == hist[1].registers[OpY(hist[1].opcode)]
        IN  /\ chip8.registers[x] = (a + b) % 256
            /\ chip8.registers[VF] = (IF a + b >= 256 THEN 1 ELSE 0)

\* C1 amended: after a cycle() that executed 8XY4 with VX = a and VY = b
\* before it, VF holds 1 if a + b >= 256 and 0 otherwise, for every X and Y
\* in 0..15, and register X holds (a + b) mod 256 for every X in 0..14
\* (with X = 15 the carry written last replaces the sum).
C1_Add ==
    Ran8XY(1, 4) =>
        LET x == OpX(hist[1].opcode)
            a == hist[1].registers[x]
            b == hist[1].registers[OpY(hist[1].opcode)]
        IN  /\ x # VF => chip8.registers[x] = (a + b) % 256
            /\ chip8.registers[VF] = (IF a + b >= 256 THEN 1 ELSE 0)

\* C1 witness: an 8XY4 with X # 15 whose sum carried, VF = 1 and VX # 0 after.
C1_AddCarried ==
    /\ Ran8XY(1, 4)
    /\ OpX(hist[1].opcode) # VF
    /\ hist[1].registers[OpX(hist[1].opcode)]
         + hist[1].registers[OpY(hist[1].opcode)] > 256
    /\ chip8.registers[VF] = 1
    /\ chip8.registers[OpX(hist[1].opcode)] > 0

(***************************************************************************)
(* C2: 8XY5.                                                               *)
(***************************************************************************)
\* C2 as stated: after a cycle() that executed 8XY5 with VX = a and VY = b
\* before it, register X holds (a - b) mod 256 and VF holds 0 if a < b and
\* 1 otherwise, for every X and Y in 0..15.
C2_SubEveryX ==
    Ran8XY(1, 5) =>
        LET x == OpX(hist[1].opcode)
            a == hist[1].registers[x]
            b == hist[1].registers[OpY(hist[1].opcode)]
        IN  /\ chip8.registers[x] = (a - b) % 256
            /\ chip8.registers[VF] = (IF a < b THEN 0 ELSE 1)

\* C2 amended: after a cycle() that executed 8XY5 with VX = a and VY = b
\* before it, VF holds 0 if a < b and 1 otherwise, for every X and Y in
\* 0..15, and register X holds (a - b) mod 256 for every X in 0..14 (with
\* X = 15 the flag written last replaces the difference).
C2_Sub ==
    Ran8XY(1, 5) =>
        LET x == OpX(hist[1].opcode)
            a == hist[1].registers[x]
            b == hist[1].registers[OpY(hist[1].opcode)]
        IN  /\ x # VF => chip8.registers[x] = (a - b) % 256
            /\ chip8.registers[VF] = (IF a < b THEN 0 ELSE 1)

\* C2 witness: an 8XY5 with X # 15 that borrowed, VF = 0 and VX # 0 after.
C2_SubBorrowed ==
    /\ Ran8XY(1, 5)
    /\ OpX(hist[1].opcode) # VF
    /\ hist[1].registers[OpX(hist[1].opcode)]
         < hist[1].registers[OpY(hist[1].opcode)]
    /\ chip8.registers[VF] = 0
    /\ chip8.registers[OpX(hist[1].opcode)] > 0


(***************************************************************************)
(* C3: call and return.                                                    *)
(***************************************************************************)
\* C3: when a cycle() executes 2NNN at PC = P with stack pointer s < 16 and
\* the next cycle() executes 00EE, the instruction at NNN, then PC = P + 2
\* and the stack pointer is s again.
C3_CallReturn ==
    ( /\ Executed(2, 2)
      /\ hist[2].sp < StackSize
      /\ hist[1].opcode = Ret
      /\ hist[1].pc = OpNNN(hist[2].opcode) )
    => /\ chip8.pc = hist[2].pc + 2
       /\ chip8.sp = hist[2].sp
       /\ ~chip8.panicked

\* C3 witness: the call made with fifteen return addresses already stored
\* has returned.
C3_Returned ==
    /\ Executed(2, 2)
    /\ hist[2].sp = StackSize - 1
    /\ hist[1].opcode = Ret
    /\ hist[1].pc = OpNNN(hist[2].opcode)
    /\ chip8.pc = hist[2].pc + 2
    /\ chip8.sp = StackSize - 1

(***************************************************************************)
(* C9: the range of the stack pointer.                                     *)
(***************************************************************************)
\* C9 as stated: in every state cycle() calls reach (a call that panicked
\* reaches none), 0 <= sp < 16.
C9_SpBelowCapacity ==
    ~chip8.panicked => (chip8.sp >= 0 /\ chip8.sp < StackSize)

\* C9 amended: in every state cycle() calls reach (a call that panicked
\* reaches none), 0 <= sp <= 16: sp counts the return addresses stored, and
\* is 16 when the stack is full.
C9_SpRange ==
    ~chip8.panicked => (chip8.sp >= 0 /\ chip8.sp <= StackSize)

\* C9 witness: the sixteenth nested call has been made and sp is 16.
C9_StackFull ==
    /\ ~chip8.panicked
    /\ Executed(1, 2)
    /\ hist[1].sp = StackSize - 1
    /\ chip8.sp = StackSize

(***************************************************************************)
(* C10: stack faults.                                                      *)
(***************************************************************************)
\* C10: a cycle() that executed 00EE with sp = 0, or 2NNN with sp = 16, ended
\* in a fault that stopped the machine, with the stack pointer not wrapped
\* (still within 0..16) and the stack array as it was.
C10_StackFaultExplicit ==
    ( /\ Ran(1)
      /\ \/ hist[1].opcode = Ret /\ hist[1].sp = 0
         \/ Executed(1, 2) /\ hist[1].sp = StackSize )
    => /\ chip8.panicked
       /\ chip8.sp >= 0 /\ chip8.sp <= StackSize
       /\ chip8.stack = hist[1].stack


(***************************************************************************)
(* C7, C8: jumps and skips.                                                *)
(***************************************************************************)
IsSkip(opcode) ==
    \/ OpTop(opcode) \in {3, 4, 5, 9}
    \/ OpTop(opcode) = 14 /\ OpNN(opcode) \in {158, 161}

\* the condition of a skip opcode, on the state the instruction finds
SkipCondition(m, opcode) ==
    LET vx == m.registers[OpX(opcode)]
        vy == m.registers[OpY(opcode)]
    IN  CASE OpTop(opcode) = 3 -> vx = OpNN(opcode)
          [] OpTop(opcode) = 4 -> vx # OpNN(opcode)
          [] OpTop(opcode) = 5 -> vx = vy
          [] OpTop(opcode) = 9 -> vx # vy
          [] OpNN(opcode) = 158 -> vx < NumKeys /\ m.keys[vx]
          [] OTHER -> vx < NumKeys /\ ~m.keys[vx]

\* C7: a cycle() executing 1NNN or a skip (3XNN, 4XNN, 5XY0, 9XY0, EX9E,
\* EXA1) leaves the registers, the index register, memory, the stack, the
\* stack pointer, the display and both timers unchanged.
C7_JumpSkipFrame ==
    [][(/\ CycleFetches
        /\ \/ OpTop(Fetched(chip8)) = 1
           \/ IsSkip(Fetched(chip8)))
          => /\ chip8'.registers = chip8.registers
             /\ chip8'.i = chip8.i
             /\ chip8'.memory = chip8.memory
             /\ chip8'.stack = chip8.stack
             /\ chip8'.sp = chip8.sp
             /\ chip8'.display = chip8.display
             /\ chip8'.delay_timer = chip8.delay_timer
             /\ chip8'.sound_timer = chip8.sound_timer]_vars

\* C7 witness: a 3XNN has skipped (PC moved by 4) over nonzero registers
\* that are as they were.
C7_Skipped ==
    /\ Executed(1, 3)
    /\ chip8.pc = hist[1].pc + 4
    /\ chip8.registers = hist[1].registers
    /\ chip8.registers[OpX(hist[1].opcode)] # 0

\* C8: one cycle() not in key-wait mode, at PC = P: PC becomes P + 4 when
\* the opcode is a skip whose condition is true, P + 2 when it is a skip
\* whose condition is false, and NNN when it is 1NNN or 2NNN, for every NNN
\* in 0x000..0xFFF.
C8_NetPc ==
    [][CycleFetches
          => /\ IsSkip(Fetched(chip8)) =>
                  chip8'.pc = chip8.pc
                     + (IF SkipCondition(chip8, Fetched(chip8)) THEN 4 ELSE 2)
             /\ OpTop(Fetched(chip8)) \in {1, 2} =>
                  chip8'.pc = OpNNN(Fetched(chip8))]_vars


(***************************************************************************)
(* C4: key wait.                                                           *)
(***************************************************************************)
IsFX0A(opcode) == OpTop(opcode) = 15 /\ OpNN(opcode) = 10

NoKeyDown(m) == \A k \in 0..(NumKeys - 1) : ~m.keys[k]

\* C4: a cycle() executing FX0A at P leaves PC = P with the machine waiting
\* for register X; while it waits, PC and the target register are those of
\* that FX0A; a cycle() made while it waits and no key is pressed changes
\* nothing; a cycle() made while it waits and a key is pressed stores the
\* lowest pressed index in register X, ends the wait, sets PC to P + 2 and
\* changes nothing else.
C4_KeyWait ==
    /\ [](chip8.waiting_for_key =>
            /\ Ran(1)
            /\ hist[1].pc = chip8.pc
            /\ \/ /\ hist[1].opcode >= 0 /\ IsFX0A(hist[1].opcode)
                  /\ chip8.key_register = OpX(hist[1].opcode)
               \/ /\ hist[1].opcode = WaitCycle
                  /\ chip8.key_register = hist[1].key_register)
    /\ [][/\ (CycleFetches /\ IsFX0A(Fetched(chip8)))
             => /\ chip8'.waiting_for_key
                /\ chip8'.pc = chip8.pc
                /\ ~chip8'.panicked
          /\ (budget' = budget - 1 /\ chip8.waiting_for_key /\ NoKeyDown(chip8))
             => chip8' = chip8
          /\ (budget' = budget - 1 /\ chip8.waiting_for_key /\ ~NoKeyDown(chip8))
             => \E k \in 0..(NumKeys - 1) :
                  /\ chip8.keys[k]
                  /\ \A j \in 0..(NumKeys - 1) : chip8.keys[j] => k <= j
                  /\ chip8' = [chip8 EXCEPT !.registers[chip8.key_register] = k,
                                            !.waiting_for_key = FALSE,
                                            !.pc = chip8.pc + 2]]_vars

\* C4 witness: FX0A ran, then a cycle() in key-wait mode, and the machine no
\* longer waits: register X holds 0 while key 1 is pressed too, PC is past
\* the FX0A.
C4_KeyStored ==
    /\ Ran(2)
    /\ hist[2].opcode >= 0 /\ IsFX0A(hist[2].opcode)
    /\ hist[1].opcode = WaitCycle
    /\ ~chip8.waiting_for_key
    /\ chip8.keys[0] /\ chip8.keys[1]
    /\ chip8.registers[OpX(hist[2].opcode)] = 0
    /\ hist[1].registers[OpX(hist[2].opcode)] = 170
    /\ chip8.pc = hist[2].pc + 2

(***************************************************************************)
(* C5, C6: drawing a sprite twice.                                         *)
(***************************************************************************)
\* the last two cycle() calls executed the same DXYN, both to the end, with
\* the same I, VX and VY (memory is not written by DXYN)
DrewTwice ==
    /\ Executed(2, 13)
    /\ hist[1].opcode = hist[2].opcode
    /\ hist[1].i = hist[2].i
    /\ hist[1].registers[OpX(hist[1].opcode)]
         = hist[2].registers[OpX(hist[1].opcode)]
    /\ hist[1].registers[OpY(hist[1].opcode)]
         = hist[2].registers[OpY(hist[1].opcode)]
    /\ ~chip8.panicked

\* C5: after the same DXYN has been executed twice in a row with the same I,
\* VX, VY and sprite bytes, every display byte is what it was before the
\* first of the two.
C5_DrawTwiceRestores == DrewTwice => chip8.display = hist[2].display

\* C5 witness: a sprite drawn twice at an unaligned position over a display
\* that was not empty, which the first draw changed.
C5_DrewTwiceOverBackground ==
    /\ DrewTwice
    /\ hist[1].registers[OpX(hist[1].opcode)] % 8 # 0
    /\ hist[1].display # hist[2].display
    /\ \E d \in 0..(DisplayBytes - 1) : hist[2].display[d] # 0
    /\ chip8.display = hist[2].display

\* the second draw cleared a pixel: one the first draw had left set
SecondDrawErased ==
    \E d \in 0..(DisplayBytes - 1), b \in 0..7 :
        Bit(hist[1].display[d], b) = 1 /\ Bit(chip8.display[d], b) = 0

\* C6: after the same DXYN has been executed twice in a row at the same
\* position, VF is 1 whenever the sprite had put a set pixel on the display
\* (which the second draw cleared), whatever the display held before.
C6_SecondDrawCollides ==
    (DrewTwice /\ SecondDrawErased) => chip8.registers[VF] = 1

(***************************************************************************)
(* C11: memory offsets.                                                    *)
(***************************************************************************)
IsFX33(opcode) == OpTop(opcode) = 15 /\ OpNN(opcode) = 51

\* the k-th most recent cycle() call, not in key-wait mode, needed a memory
\* offset past 4095: at its fetch, at a DXYN sprite read, or at an FX33 write
OffsetPastEnd(k) ==
    /\ Ran(k)
    /\ hist[k].opcode # WaitCycle
    /\ \/ hist[k].opcode = FetchFault
       \/ /\ hist[k].opcode >= 0
          /\ OpTop(hist[k].opcode) = 13
          /\ OpN(hist[k].opcode) > 0
          /\ hist[k].i + OpN(hist[k].opcode) - 1 >= MemSize
       \/ /\ hist[k].opcode >= 0
          /\ IsFX33(hist[k].opcode)
          /\ hist[k].i + 2 >= MemSize

\* C11 as stated: every cycle() call finds the offsets it needs within
\* 0..4095: PC and PC + 1 at the fetch, I + row for row < N in DXYN, and
\* I, I + 1, I + 2 in FX33.
C11_OffsetsInRange == ~OffsetPastEnd(1)

\* C11 amended: a cycle() call accesses memory only at offsets within
\* 0..4095: a call that needs an offset past 4095 (PC + 1 at the fetch,
\* I + row in DXYN, I + k in FX33) panics with PC as it was, and an FX33
\* that returns had I + 2 <= 4095 and stored the three digits of VX at
\* I, I + 1 and I + 2.
C11_AccessInRangeOrPanic ==
    /\ OffsetPastEnd(1) => (chip8.panicked /\ chip8.pc = hist[1].pc)
    /\ (Ran(1) /\ hist[1].opcode >= 0 /\ IsFX33(hist[1].opcode)
          /\ ~chip8.panicked)
        => LET v == hist[1].registers[OpX(hist[1].opcode)]
           IN  /\ hist[1].i + 2 < MemSize
               /\ chip8.memory[hist[1].i] = v \div 100
               /\ chip8.memory[hist[1].i + 1] = (v \div 10) % 10
               /\ chip8.memory[hist[1].i + 2] = v % 10

\* C11 witness: FX33 with I = 4093 has stored the digits of 157 in the last
\* three cells of memory and returned.
C11_BcdAtEnd ==
    /\ Ran(1) /\ hist[1].opcode >= 0 /\ IsFX33(hist[1].opcode)
    /\ hist[1].i = MemSize - 3
    /\ ~chip8.panicked
    /\ chip8.memory[MemSize - 3] = 1
    /\ chip8.memory[MemSize - 2] = 5
    /\ chip8.memory[MemSize - 1] = 7

(***************************************************************************)
(* C12: opcodes outside the opcode table.                                  *)
(***************************************************************************)
\* the patterns of the opcode table: 00E0, 00EE, 1NNN, 2NNN, 3XNN, 4XNN,
\* 5XY0, 6XNN, 7XNN, 8XY0, 8XY2, 8XY4, 8XY5, 9XY0, ANNN, DXYN, EX9E, EXA1,
\* FX07, FX0A, FX15, FX18, FX29, FX33, FX65
InOpcodeTable(opcode) ==
    CASE OpTop(opcode) = 0 -> opcode \in {224, 238}
      [] OpTop(opcode) \in {1, 2, 3, 4, 6, 7, 10, 13} -> TRUE
      [] OpTop(opcode) \in {5, 9} -> OpN(opcode) = 0
      [] OpTop(opcode) = 8 -> OpN(opcode) \in {0, 2, 4, 5}
      [] OpTop(opcode) = 14 -> OpNN(opcode) \in {158, 161}
      [] OpTop(opcode) = 15 -> OpNN(opcode) \in {7, 10, 21, 24, 41, 51, 101}
      [] OTHER -> FALSE

\* C12: a cycle() that fetches an opcode matching no pattern of the opcode
\* table advances PC by exactly 2 and changes nothing else.
C12_UnlistedIsNoop ==
    [][(CycleFetches /\ ~InOpcodeTable(Fetched(chip8)))
          => chip8' = [chip8 EXCEPT !.pc = chip8.pc + 2]]_vars

(***************************************************************************)
(* C20: the key index of EX9E and EXA1.                                    *)
(***************************************************************************)
IsKeySkip(opcode) == OpTop(opcode) = 14 /\ OpNN(opcode) \in {158, 161}

\* C20: a cycle() that executed EX9E or EXA1, whatever register X held, did
\* not index the key flags out of range: it returned, with PC advanced
\* by 2 or by 4.
C20_KeyIndexInRange ==
    (Ran(1) /\ hist[1].opcode >= 0 /\ IsKeySkip(hist[1].opcode))
    => /\ ~chip8.panicked
       /\ chip8.pc \in {hist[1].pc + 2, hist[1].pc + 4}

(***************************************************************************)
(* C13: the timers.                                                        *)
(***************************************************************************)
IsFX15(opcode) == OpTop(opcode) = 15 /\ OpNN(opcode) = 21
IsFX18(opcode) == OpTop(opcode) = 15 /\ OpNN(opcode) = 24

\* C13: update_timers() takes 1 from the delay timer if and only if it is
\* nonzero and likewise from the sound timer, takes neither below 0 and
\* changes nothing else; cycle() changes the delay timer only by FX15 and
\* the sound timer only by FX18, which set it to VX.  So a timer set to v
\* is v - k after k <= v calls of update_timers(), 0 after the v-th and 0
\* from then on, until it is set again.
C13_Timers ==
    /\ [](chip8.delay_timer \in 0..(U8 - 1) /\ chip8.sound_timer \in 0..(U8 - 1))
    /\ [][/\ UpdateTimers =>
                /\ chip8'.delay_timer =
                      (IF chip8.delay_timer # 0 THEN chip8.delay_timer - 1 ELSE 0)
                /\ chip8'.sound_timer =
                      (IF chip8.sound_timer # 0 THEN chip8.sound_timer - 1 ELSE 0)
                /\ chip8' = [chip8 EXCEPT !.delay_timer = chip8'.delay_timer,
                                          !.sound_timer = chip8'.sound_timer]
          /\ (budget' = budget - 1 /\ chip8'.delay_timer # chip8.delay_timer)
                => /\ CycleFetches /\ IsFX15(Fetched(chip8))
                   /\ chip8'.delay_timer = chip8.registers[OpX(Fetched(chip8))]
          /\ (budget' = budget - 1 /\ chip8'.sound_timer # chip8.sound_timer)
                => /\ CycleFetches /\ IsFX18(Fetched(chip8))
                   /\ chip8'.sound_timer = chip8.registers[OpX(Fetched(chip8))]
         ]_vars

\* C13 witness: the last cycle() executed FX15 with VX = 255, and calls of
\* update_timers() since have brought the delay timer to 0, the sound timer
\* staying 0.
C13_DelayRanOut ==
    /\ Ran(1) /\ hist[1].opcode >= 0 /\ IsFX15(hist[1].opcode)
    /\ hist[1].registers[OpX(hist[1].opcode)] = U8 - 1
    /\ hist[1].delay_timer = 0
    /\ chip8.delay_timer = 0
    /\ chip8.sound_timer = 0

(***************************************************************************)
(* C14: FX29.                                                              *)
(***************************************************************************)
IsFX29(opcode) == OpTop(opcode) = 15 /\ OpNN(opcode) = 41

\* C14: after a cycle() that executed FX29 with VX = v, for every 8-bit v,
\* the index register is 0x050 + 5 * v.
C14_FontAddress ==
    (Ran(1) /\ hist[1].opcode >= 0 /\ IsFX29(hist[1].opcode))
    => /\ ~chip8.panicked
       /\ chip8.i = 80 + 5 * hist[1].registers[OpX(hist[1].opcode)]

(***************************************************************************)
(* C15: FX65.                                                              *)
(***************************************************************************)
IsFX65(opcode) == OpTop(opcode) = 15 /\ OpNN(opcode) = 101

\* C15: after a cycle() that executed FX65 with I + X <= 4095, register k
\* holds memory[I + k] for every k in 0..X.
C15_LoadRegisters ==
    ( /\ Ran(1) /\ hist[1].opcode >= 0 /\ IsFX65(hist[1].opcode)
      /\ hist[1].i + OpX(hist[1].opcode) < MemSize )
    => \A k \in 0..OpX(hist[1].opcode) :
          chip8.registers[k] = chip8.memory[hist[1].i + k]

(***************************************************************************)
(* C16: the addition loop, end to end.                                     *)
(***************************************************************************)
\* C16: from the freshly constructed machine with the loop program loaded,
\* repeated cycle() calls eventually reach a state where VF = 0xFF, and in
\* every state where VF = 0xFF register B equals register D (0x0B) and
\* register A holds 1 + 2 + ... + 10 = 55.
C16_LoopEndsWithSum ==
    /\ <>(chip8.registers[VF] = 255)
    /\ [](chip8.registers[VF] = 255 =>
            /\ chip8.registers[11] = chip8.registers[13]
            /\ chip8.registers[13] = 11
            /\ chip8.registers[10] = 55
            /\ ~chip8.panicked)

\* C16 witness: the 6FFF at 0x210 has just been executed, with VA = 55 and
\* VB = VD = 11 before and after it.
C16_LoopLeft ==
    /\ Executed(1, 6)
    /\ hist[1].pc = ProgStart + 16
    /\ hist[1].registers[10] = 55
    /\ chip8.registers[VF] = 255
    /\ chip8.registers[10] = 55
    /\ chip8.registers[11] = 11

(***************************************************************************)
(* C17: what changes the display.                                          *)
(***************************************************************************)
Blank(display) == \A d \in 0..(DisplayBytes - 1) : display[d] = 0

\* C17: a step changes a display byte only if it is a cycle() that executes
\* 00E0 or DXYN (so no other opcode, no cycle() in key-wait mode, no
\* update_timers(), set_keys() or get_display_buffer() does), and after a
\* cycle() that executes 00E0 every display byte is 0.
C17_DisplayFrame ==
    [][/\ chip8'.display # chip8.display
            => /\ CycleFetches
               /\ \/ Fetched(chip8) = 224
                  \/ OpTop(Fetched(chip8)) = 13
       /\ (CycleFetches /\ Fetched(chip8) = 224) => Blank(chip8'.display)
      ]_vars

\* C17 witness: an FX33, which stores into memory, left the drawn glyph on
\* the display, and the 00E0 after it left every display byte 0.
C17_ClearedAfterOther ==
    /\ Ran(2)
    /\ hist[2].opcode >= 0 /\ IsFX33(hist[2].opcode)
    /\ ~Blank(hist[2].display)
    /\ hist[1].display = hist[2].display
    /\ hist[1].opcode = 224
    /\ Blank(chip8.display)

(***************************************************************************)
(* C18: the parity of PC.                                                  *)
(***************************************************************************)
\* C18 as stated: PC is even in every state cycle() calls reach.
C18_PcEven == chip8.pc % 2 = 0

\* PC and every return address stored on the stack are even
EvenAddresses(m) ==
    /\ m.pc % 2 = 0
    /\ \A s \in 0..(StackSize - 1) : s < m.sp => m.stack[s] % 2 = 0

\* C18 amended: PC is even (0x200) before the first cycle(), only cycle()
\* changes it, and a cycle() that begins with PC and the stored return
\* addresses even leaves them even unless it executes a 1NNN or 2NNN whose
\* NNN is odd; so PC is even in every state reached without executing a
\* jump or call to an odd address.
C18_PcEvenButOddTargets ==
    /\ [](hist = <<>> => (chip8.pc = ProgStart /\ chip8.sp = 0))
    /\ [][/\ budget' = budget => chip8'.pc = chip8.pc
          /\ ( /\ budget' = budget - 1
               /\ EvenAddresses(chip8)
               /\ ~ /\ CycleFetches
                     /\ OpTop(Fetched(chip8)) \in {1, 2}
                     /\ OpNNN(Fetched(chip8)) % 2 = 1 )
             => EvenAddresses(chip8')
         ]_vars

\* C18 witness: a call to an even address made with fifteen even return
\* addresses stored, and the return from it, have left PC even.
C18_EvenAfterReturn ==
    /\ Executed(2, 2)
    /\ OpNNN(hist[2].opcode) % 2 = 0
    /\ hist[2].sp = StackSize - 1
    /\ hist[1].opcode = Ret
    /\ ~chip8.panicked
    /\ EvenAddresses(chip8)

(***************************************************************************)
(* C19: the display bytes DXYN may change.                                 *)
(***************************************************************************)
\* the display bytes the claim lets a DXYN with VX = vx, VY = vy and N = n
\* change: for each r < n, in display row (vy mod 32 + r) mod 32, the byte
\* column (vx mod 64) div 8 and, when vx mod 64 is not a multiple of 8 and
\* is below 56, the next column
SpriteBytes(vx, vy, n) ==
    {((((vy % 32) + r) % 32) * 8) + ((vx % 64) \div 8) + c :
        r \in 0..(n - 1),
        c \in {0} \cup (IF (vx % 64) % 8 # 0 /\ (vx % 64) < 56 THEN {1} ELSE {})}

\* C19: after a cycle() that executed DXYN, every display byte that differs
\* from what it was before is one of those bytes: no byte of another row,
\* none in column 0 past the right edge, none in the following row.
C19_DrawConfined ==
    Executed(1, 13) =>
        \A d \in 0..(DisplayBytes - 1) :
            chip8.display[d] # hist[1].display[d]
            => d \in SpriteBytes(hist[1].registers[OpX(hist[1].opcode)],
                                 hist[1].registers[OpY(hist[1].opcode)],
                                 OpN(hist[1].opcode))

\* C19 witness: a two-row sprite drawn at VX = 59, VY = 31 has changed the
\* last byte of display row 31 and the last byte of display row 0, and
\* nothing in byte column 0.
C19_DrewAtCorner ==
    /\ Executed(1, 13)
    /\ OpN(hist[1].opcode) = 2
    /\ hist[1].registers[OpX(hist[1].opcode)] = 59
    /\ hist[1].registers[OpY(hist[1].opcode)] = 31
    /\ chip8.display[255] # hist[1].display[255]
    /\ chip8.display[7] # hist[1].display[7]
    /\ \A r \in 0..(ScreenH - 1) : chip8.display[r * 8] = hist[1].display[r * 8]
    /\ ~chip8.panicked

====
